---- MODULE Spec2Model ----
(***************************************************************************)
(* Model of the two construct wrappers of the repository:                  *)
(*   - aws-memorydb User            (src/src/aws-memorydb/user.ts)         *)
(*   - aws-fis ExperimentTemplate   (src/src/aws-fis/experiment-template.ts)*)
(* Each constructor is a single-pass sequence of steps; a step that throws *)
(* ends the construction.  JavaScript values that may be undefined are     *)
(* tagged records, so that undefined, strings, lists and object references *)
(* are distinct values.                                                    *)
(***************************************************************************)
EXTENDS Integers, Sequences, FiniteSets

VARIABLES
  nameInput,            \* argument of a stand-alone validateUserName call
  nameResult,           \* "pending", "ok", or the kind of Error thrown
  userProps,            \* User.props
  userPc,               \* position inside the User constructor
  physicalName,         \* Resource.physicalName given to super()
  userName,             \* User.userName
  userArn,              \* User.userArn
  userCalls,            \* CfnUser property bags issued by createResource
  userError,            \* Error thrown by the User constructor, or "none"
  userTrace,            \* constructor steps that ran, in order
  templateProps,        \* ExperimentTemplate.props
  templatePc,           \* position inside the ExperimentTemplate constructor
  fisRole,              \* ExperimentTemplate.fisRole
  cloudWatchLogsGroup,  \* ExperimentTemplate.cloudWatchLogsGroup
  s3LoggingBucket,      \* ExperimentTemplate.s3LoggingBucket
  children,             \* auxiliary constructs created under the template
  templateCalls,        \* CfnExperimentTemplate property bags issued
  templateError         \* error thrown by the constructor, or "none"

nameVars == <<nameInput, nameResult>>
userVars == <<userProps, userPc, physicalName, userName, userArn, userCalls,
              userError, userTrace>>
templateVars == <<templateProps, templatePc, fisRole, cloudWatchLogsGroup,
                  s3LoggingBucket, children, templateCalls, templateError>>
vars == <<nameVars, userVars, templateVars>>

----------------------------------------------------------------------------
(* Values *)

Undefined == [tag |-> "undefined"]
Str(v) == [tag |-> "str", val |-> v]
List(s) == [tag |-> "list", items |-> s]
Rep(c, n) == [i \in 1..n |-> c]
SeqsUpTo(S, n) == UNION {[1..k -> S] : k \in 0..n}

\* bounds of the enumerated inputs
MaxShort == 3
MaxPasswords == 3
MaxStop == 2

----------------------------------------------------------------------------
(* aws-memorydb: User *)

PASSWORD == "password"
IAM == "iam"
AuthenticationType == {PASSWORD, IAM}

MaxNameLen == 40
DefaultAccessString == "off -@all"

Letters == {"a","b","c","d","e","f","g","h","i","j","k","l","m","n","o","p",
            "q","r","s","t","u","v","w","x","y","z",
            "A","B","C","D","E","F","G","H","I","J","K","L","M","N","O","P",
            "Q","R","S","T","U","V","W","X","Y","Z"}
Digits == {"0","1","2","3","4","5","6","7","8","9"}
Hyphen == "-"
\* "$" stands for the marker "${Token[...]}" that an unresolved token leaves
\* inside a string
TokenMarker == "$"

\* Token.isUnresolved(userName): false for undefined, true for a string that
\* carries a token marker
isUnresolved(x) ==
  /\ x.tag = "str"
  /\ \E i \in 1..Len(x.val) : x.val[i] = TokenMarker

\* One step of the automaton of /^[A-Za-z][A-Za-z0-9]*(-[A-Za-z0-9]+)*$/ :
\* "first" before the leading letter, "word" inside a run of alphanumerics,
\* "hyphen" right after a hyphen, "dead" when no match is possible.
PatternStep(q, c) ==
  CASE q = "first" /\ c \in Letters -> "word"
    [] q = "word" /\ c \in Letters \cup Digits -> "word"
    [] q = "word" /\ c = Hyphen -> "hyphen"
    [] q = "hyphen" /\ c \in Letters \cup Digits -> "word"
    [] OTHER -> "dead"

RECURSIVE PatternRun(_, _)
PatternRun(q, s) ==
  IF s = <<>> THEN q ELSE PatternRun(PatternStep(q, Head(s)), Tail(s))

\* the regular expression's test(): anchored at both ends
\* variant: the group written (-[A-Za-z0-9]*)*, which admits a trailing hyphen
MutPatternTest(s) == PatternRun("first", s) \in {"word", "hyphen"}
PatternTest(s) == PatternRun("first", s) = "word"

\* User.validateUserName: "ok" when it returns, else which Error it throws
validateUserName(name) ==
  IF isUnresolved(name) \/ name = Undefined THEN "ok"
  ELSE IF Len(name.val) < 1 \/ Len(name.val) > MaxNameLen THEN "length"
  ELSE IF ~PatternTest(name.val) THEN "pattern"
  ELSE "ok"

\* JavaScript truthiness of props.passwords: undefined is falsy, every array
\* (the empty one included) is truthy
Truthy(x) == x # Undefined

\* User.validateAuthenticationSettings
validateAuthenticationSettings(type, passwords) ==
  IF type = PASSWORD /\ ~Truthy(passwords) THEN "passwordsRequired"
  ELSE IF type # PASSWORD /\ Truthy(passwords) THEN "passwordsNotAllowed"
  ELSE "ok"

\* SecretValue: an opaque handle around a raw string
Secret(raw) == [tag |-> "secret", raw |-> raw]
unsafeUnwrap(p) == p.raw

Reverse(s) == [i \in 1..Len(s) |-> s[Len(s) + 1 - i]]

\* variant: the passwords rendered in reverse order
MutRenderAuthenticationMode(props) ==
  IF Truthy(props.passwords)
  THEN [Type |-> props.authenticationType,
        Passwords |-> Reverse([i \in DOMAIN props.passwords.items |->
                        unsafeUnwrap(props.passwords.items[i])])]
  ELSE [Type |-> props.authenticationType]
\* User.renderAuthenticationMode
renderAuthenticationMode(props) ==
  IF Truthy(props.passwords)
  THEN [Type |-> props.authenticationType,
        Passwords |-> [i \in DOMAIN props.passwords.items |->
                        unsafeUnwrap(props.passwords.items[i])]]
  ELSE [Type |-> props.authenticationType]

\* Lazy.string({produce: () => Names.uniqueResourceName(...).toLowerCase()})
LazyName == [tag |-> "lazy", produce |-> "uniqueResourceName"]

\* a ?? b
Coalesce(a, b) == IF a = Undefined THEN b ELSE a

\* variant: the explicit access string ignored
MutCfnUserProps(props, physical) ==
  [userName |-> Coalesce(props.userName, physical),
   accessString |-> Str(DefaultAccessString),
   authenticationMode |-> renderAuthenticationMode(props)]
\* the property bag of lines 207-211
CfnUserProps(props, physical) ==
  [userName |-> Coalesce(props.userName, physical),
   accessString |-> Coalesce(props.accessString, Str(DefaultAccessString)),
   authenticationMode |-> renderAuthenticationMode(props)]

(* inputs *)
NameChars == {"a", "Z", "7", Hyphen, "_", TokenMarker}
ShortNames == SeqsUpTo(NameChars, MaxShort)
\* a short name stretched with letters after its first character, so that
\* the length limit is met with every shape of name
Stretch(s, n) ==
  IF s = <<>> THEN Rep("a", n)
  ELSE <<Head(s)>> \o Rep("a", n - Len(s)) \o Tail(s)
LongNames == {Stretch(s, n) : s \in ShortNames,
                              n \in (MaxNameLen - 1)..(MaxNameLen + 1)}
NameInputs == {Undefined} \cup {Str(s) : s \in ShortNames \cup LongNames}

Alice == <<"a","l","i","c","e","-","1">>
CtorNames == {Undefined} \cup
  {Str(s) : s \in {Alice, <<"a">>, <<>>, <<"1","a">>, <<"a","-">>,
                   <<"a","-","-","b">>, <<TokenMarker>>, <<"1",TokenMarker>>,
                   Rep("a", MaxNameLen), Rep("a", MaxNameLen + 1)}}
AccessStrings == {Undefined, Str("on ~* +@all"), Str("")}
Secrets == {Secret("secretA"), Secret("secretB")}
PasswordInputs == {Undefined} \cup {List(s) : s \in SeqsUpTo(Secrets, MaxPasswords)}
UserInputs == [userName : CtorNames, accessString : AccessStrings,
               authenticationType : AuthenticationType,
               passwords : PasswordInputs]

NameIdle == nameInput = Undefined /\ nameResult = "idle"
UserIdle ==
  /\ userProps = Undefined /\ userPc = "idle" /\ physicalName = Undefined
  /\ userName = Undefined /\ userArn = Undefined /\ userCalls = <<>>
  /\ userError = "none" /\ userTrace = <<>>
TemplateIdle ==
  /\ templateProps = Undefined /\ templatePc = "idle" /\ fisRole = Undefined
  /\ cloudWatchLogsGroup = Undefined /\ s3LoggingBucket = Undefined
  /\ children = <<>> /\ templateCalls = <<>> /\ templateError = "none"

(* validateUserName on its own *)
InitName ==
  /\ nameInput \in NameInputs
  /\ nameResult = "pending"
  /\ UserIdle /\ TemplateIdle

ValidateUserNameCall ==
  /\ nameResult = "pending"
  /\ nameResult' = validateUserName(nameInput)
  /\ UNCHANGED <<nameInput, userVars, templateVars>>

NextName == ValidateUserNameCall
SpecName == InitName /\ [][NextName]_vars

(* the User constructor, lines 194-215 *)
InitUser ==
  /\ userProps \in UserInputs
  /\ userPc = "super"
  /\ physicalName = Undefined /\ userName = Undefined /\ userArn = Undefined
  /\ userCalls = <<>> /\ userError = "none" /\ userTrace = <<>>
  /\ NameIdle /\ TemplateIdle

\* lines 195-202: super(scope, id, {physicalName: ...}); this.props = props
UserSuper ==
  /\ userPc = "super"
  /\ physicalName' = Coalesce(userProps.userName, LazyName)
  /\ userPc' = "validateUserName"
  /\ userTrace' = Append(userTrace, "super")
  /\ UNCHANGED <<userProps, userName, userArn, userCalls, userError>>

\* line 204
UserValidateUserName ==
  /\ userPc = "validateUserName"
  /\ LET r == validateUserName(userProps.userName) IN
       /\ userError' = IF r = "ok" THEN userError ELSE r
       /\ userPc' = IF r = "ok" THEN "validateAuthenticationSettings" ELSE "failed"
  /\ userTrace' = Append(userTrace, "validateUserName")
  /\ UNCHANGED <<userProps, physicalName, userName, userArn, userCalls>>

\* line 205
UserValidateAuthenticationSettings ==
  /\ userPc = "validateAuthenticationSettings"
  /\ LET r == validateAuthenticationSettings(userProps.authenticationType,
                                             userProps.passwords) IN
       /\ userError' = IF r = "ok" THEN userError ELSE r
       /\ userPc' = IF r = "ok" THEN "createResource" ELSE "failed"
  /\ userTrace' = Append(userTrace, "validateAuthenticationSettings")
  /\ UNCHANGED <<userProps, physicalName, userName, userArn, userCalls>>

\* variant: createResource reachable before validateAuthenticationSettings
MutUserCreateResource ==
  /\ userPc \in {"validateAuthenticationSettings", "createResource"}
  /\ LET bag == CfnUserProps(userProps, physicalName) IN
       /\ userCalls' = Append(userCalls, bag)
       /\ userArn' = [tag |-> "attr", of |-> "Resource", attr |-> "Arn"]
       /\ userName' = bag.userName
  /\ userPc' = "done"
  /\ userTrace' = Append(userTrace, "createResource")
  /\ UNCHANGED <<userProps, physicalName, userError>>
\* lines 207-214: createResource, then userArn and userName are read back
UserCreateResource ==
  /\ userPc = "createResource"
  /\ LET bag == CfnUserProps(userProps, physicalName) IN
       /\ userCalls' = Append(userCalls, bag)
       /\ userArn' = [tag |-> "attr", of |-> "Resource", attr |-> "Arn"]
       /\ userName' = bag.userName
  /\ userPc' = "done"
  /\ userTrace' = Append(userTrace, "createResource")
  /\ UNCHANGED <<userProps, physicalName, userError>>

NextUser ==
  \/ UserSuper /\ UNCHANGED <<nameVars, templateVars>>
  \/ UserValidateUserName /\ UNCHANGED <<nameVars, templateVars>>
  \/ UserValidateAuthenticationSettings /\ UNCHANGED <<nameVars, templateVars>>
  \/ UserCreateResource /\ UNCHANGED <<nameVars, templateVars>>
SpecUser == InitUser /\ [][NextUser]_vars

----------------------------------------------------------------------------
(* aws-fis: ExperimentTemplate *)

ONE_MONTH == 30

MULTI_ACCOUNT == "multi-account"
SINGLE_ACCOUNT == "single-account"
FAIL == "fail"
SKIP == "skip"

\* references supplied by the caller
ExternalRole == [tag |-> "role", id |-> "external", roleArn |-> Str("arn:role/external")]
ExternalLogGroup ==
  [tag |-> "logGroup", id |-> "external", logGroupArn |-> Str("arn:log-group/external")]
ExternalBucket ==
  [tag |-> "bucket", id |-> "external", bucketArn |-> Str("arn:bucket/external")]
Alarms == {[tag |-> "alarm", alarmArn |-> Str("arn:alarm/1")],
           [tag |-> "alarm", alarmArn |-> Str("arn:alarm/2")]}

\* new aws_iam.Role(this, 'Role', {assumedBy: ServicePrincipal('pipes.amazonaws.com')})
NewRole ==
  [tag |-> "role", id |-> "Role", roleArn |-> Str("arn:role/Role"),
   assumedBy |-> "pipes.amazonaws.com"]
\* new aws_logs.LogGroup(this, 'AppLogs', {retention: RetentionDays.ONE_MONTH})
NewLogGroup ==
  [tag |-> "logGroup", id |-> "AppLogs", logGroupArn |-> Str("arn:log-group/AppLogs"),
   retention |-> ONE_MONTH]
\* new aws_s3.Bucket(this, 'ArtifactsBucket', {encryption: KMS_MANAGED})
NewBucket ==
  [tag |-> "bucket", id |-> "ArtifactsBucket",
   bucketArn |-> Str("arn:bucket/ArtifactsBucket"), encryption |-> "KMS_MANAGED"]

\* props.logConfiguration?.flag : undefined (falsy) when there is no
\* logConfiguration
CloudWatchEnabled(props) ==
  props.logConfiguration # Undefined
    /\ props.logConfiguration.cloudWatchLogLoggingEnabled
S3Enabled(props) ==
  props.logConfiguration # Undefined /\ props.logConfiguration.s3LoggingEnabled

\* the arrow function of lines 131-134; s.value?.alarmArn
RenderCondition(s) ==
  [source |-> s.source,
   value |-> IF s.value = Undefined THEN Undefined ELSE s.value.alarmArn]

\* variant: the conditions rendered in reverse order
MutRenderConditions(props) ==
  Reverse([i \in DOMAIN props.stopConditions |->
             RenderCondition(props.stopConditions[i])])
\* ExperimentTemplate.renderConditions
renderConditions(props) ==
  [i \in DOMAIN props.stopConditions |-> RenderCondition(props.stopConditions[i])]

\* reading a property of undefined throws a TypeError
RenderLogThrows(logGroup, bucket) == logGroup = Undefined \/ bucket = Undefined

\* ExperimentTemplate.renderLogConfiguration, when it does not throw
renderLogConfiguration(logConfiguration, logGroup, bucket) ==
  [logSchemaVersion |-> logConfiguration.logSchemaVersion,
   cloudWatchLogsConfiguration |-> [logGroupArn |-> logGroup.logGroupArn],
   s3Configuration |-> [bucketName |-> bucket.bucketArn,
                        prefix |-> logConfiguration.s3LoggingPrefix]]

\* the hard-coded targets and actions of lines 88-121
PlaceholderTargets ==
  [tartsKey |-> [resourceType |-> "resourceType", selectionMode |-> "selectionMode"]]
PlaceholderActions == [actionsKey |-> [actionId |-> "actionId"]]

\* the property bag of lines 84-127
CfnExperimentTemplateProps(props, role, logGroup, bucket) ==
  [description |-> props.description,
   roleArn |-> role.roleArn,
   stopConditions |-> renderConditions(props),
   targets |-> PlaceholderTargets,
   actions |-> PlaceholderActions,
   experimentOptions |->
     [accountTargeting |-> props.accountTargeting,
      emptyTargetResolutionMode |-> props.emptyTargetResolutionMode],
   logConfiguration |->
     IF props.logConfiguration # Undefined
     THEN renderLogConfiguration(props.logConfiguration, logGroup, bucket)
     ELSE Undefined]

(* inputs *)
\* the declared type of StopCondition.source is the literal ''; a cast admits
\* any string
Sources == {"", "aws:cloudwatch:alarm"}
StopConditions == [source : Sources, value : {Undefined} \cup Alarms]
LogConfigurations ==
  [logSchemaVersion : {2},
   cloudWatchLogLoggingEnabled : BOOLEAN,
   cloudwatchLogGroup : {Undefined, ExternalLogGroup},
   s3LoggingEnabled : BOOLEAN,
   s3LoggingBucket : {Undefined, ExternalBucket},
   s3LoggingPrefix : {Undefined, Str("logs/")}]
TemplateInputs ==
  [description : {"experiment"},
   role : {Undefined, ExternalRole},
   stopConditions : SeqsUpTo(StopConditions, MaxStop),
   accountTargeting : {MULTI_ACCOUNT, SINGLE_ACCOUNT},
   emptyTargetResolutionMode : {FAIL, SKIP},
   logConfiguration : {Undefined} \cup LogConfigurations]

InitTemplate ==
  /\ templateProps \in TemplateInputs
  /\ templatePc = "resolveRole"
  /\ fisRole = Undefined /\ cloudWatchLogsGroup = Undefined
  /\ s3LoggingBucket = Undefined
  /\ children = <<>> /\ templateCalls = <<>> /\ templateError = "none"
  /\ NameIdle /\ UserIdle

\* variant: a role created even when one is supplied
MutTemplateResolveRole ==
  /\ templatePc = "resolveRole"
  /\ fisRole' = NewRole
  /\ children' = Append(children, NewRole)
  /\ templatePc' = "resolveCloudWatch"
  /\ UNCHANGED <<templateProps, cloudWatchLogsGroup, s3LoggingBucket,
                 templateCalls, templateError>>
\* lines 60-66: this.fisRole = props.role || new aws_iam.Role(...)
TemplateResolveRole ==
  /\ templatePc = "resolveRole"
  /\ IF templateProps.role # Undefined
     THEN fisRole' = templateProps.role /\ children' = children
     ELSE fisRole' = NewRole /\ children' = Append(children, NewRole)
  /\ templatePc' = "resolveCloudWatch"
  /\ UNCHANGED <<templateProps, cloudWatchLogsGroup, s3LoggingBucket,
                 templateCalls, templateError>>

\* variant: the enabled flag ignored
MutTemplateResolveCloudWatch ==
  /\ templatePc = "resolveCloudWatch"
  /\ IF templateProps.logConfiguration # Undefined
     THEN IF templateProps.logConfiguration.cloudwatchLogGroup # Undefined
          THEN /\ cloudWatchLogsGroup' = templateProps.logConfiguration.cloudwatchLogGroup
               /\ children' = children
          ELSE /\ cloudWatchLogsGroup' = NewLogGroup
               /\ children' = Append(children, NewLogGroup)
     ELSE UNCHANGED <<cloudWatchLogsGroup, children>>
  /\ templatePc' = "resolveS3"
  /\ UNCHANGED <<templateProps, fisRole, s3LoggingBucket, templateCalls,
                 templateError>>
\* lines 68-72
TemplateResolveCloudWatch ==
  /\ templatePc = "resolveCloudWatch"
  /\ IF CloudWatchEnabled(templateProps)
     THEN IF templateProps.logConfiguration.cloudwatchLogGroup # Undefined
          THEN /\ cloudWatchLogsGroup' = templateProps.logConfiguration.cloudwatchLogGroup
               /\ children' = children
          ELSE /\ cloudWatchLogsGroup' = NewLogGroup
               /\ children' = Append(children, NewLogGroup)
     ELSE UNCHANGED <<cloudWatchLogsGroup, children>>
  /\ templatePc' = "resolveS3"
  /\ UNCHANGED <<templateProps, fisRole, s3LoggingBucket, templateCalls,
                 templateError>>

\* lines 74-78
TemplateResolveS3 ==
  /\ templatePc = "resolveS3"
  /\ IF S3Enabled(templateProps)
     THEN IF templateProps.logConfiguration.s3LoggingBucket # Undefined
          THEN /\ s3LoggingBucket' = templateProps.logConfiguration.s3LoggingBucket
               /\ children' = children
          ELSE /\ s3LoggingBucket' = NewBucket
               /\ children' = Append(children, NewBucket)
     ELSE UNCHANGED <<s3LoggingBucket, children>>
  /\ templatePc' = "createExperimentTemplate"
  /\ UNCHANGED <<templateProps, fisRole, cloudWatchLogsGroup, templateCalls,
                 templateError>>

\* line 80 and lines 83-128: the property bag is evaluated first (and
\* renderLogConfiguration may throw), then the one create call is issued
TemplateCreateExperimentTemplate ==
  /\ templatePc = "createExperimentTemplate"
  /\ IF templateProps.logConfiguration # Undefined
          /\ RenderLogThrows(cloudWatchLogsGroup, s3LoggingBucket)
     THEN /\ templateError' = "TypeError"
          /\ templatePc' = "failed"
          /\ templateCalls' = templateCalls
     ELSE /\ templateCalls' =
               Append(templateCalls,
                      CfnExperimentTemplateProps(templateProps, fisRole,
                                                 cloudWatchLogsGroup, s3LoggingBucket))
          /\ templatePc' = "done"
          /\ templateError' = templateError
  /\ UNCHANGED <<templateProps, fisRole, cloudWatchLogsGroup, s3LoggingBucket,
                 children>>

NextTemplate ==
  \/ TemplateResolveRole /\ UNCHANGED <<nameVars, userVars>>
  \/ TemplateResolveCloudWatch /\ UNCHANGED <<nameVars, userVars>>
  \/ TemplateResolveS3 /\ UNCHANGED <<nameVars, userVars>>
  \/ TemplateCreateExperimentTemplate /\ UNCHANGED <<nameVars, userVars>>
SpecTemplate == InitTemplate /\ [][NextTemplate]_vars

----------------------------------------------------------------------------
(* Properties *)

UserTerminal == userPc \in {"done", "failed"}
TemplateTerminal == templatePc \in {"done", "failed"}
IsDeferred(name) ==
  name.tag = "str" /\ \E i \in DOMAIN name.val : name.val[i] = TokenMarker
Alnum == Letters \cup Digits
\* the pattern, stated character by character
WellFormed(s) ==
  /\ s # <<>>
  /\ s[1] \in Letters
  /\ \A i \in DOMAIN s : s[i] \in Alnum \cup {Hyphen}
  /\ s[Len(s)] # Hyphen
  /\ \A i \in 1..(Len(s) - 1) : ~(s[i] = Hyphen /\ s[i + 1] = Hyphen)
ValidOrAbsent(name) ==
  \/ name = Undefined
  \/ /\ name.tag = "str" /\ ~IsDeferred(name)
     /\ Len(name.val) \in 1..MaxNameLen /\ WellFormed(name.val)
PasswordCount(passwords) ==
  IF passwords = Undefined THEN 0 ELSE Len(passwords.items)

\* C1: with a valid or absent name, construction fails for PASSWORD without
\* credentials (absent or the empty list), fails for IAM with a non-empty
\* credential list, and succeeds for PASSWORD with one or two credentials.
C1_AuthenticationOutcome ==
  (UserTerminal /\ ValidOrAbsent(userProps.userName)) =>
    LET type == userProps.authenticationType
        n == PasswordCount(userProps.passwords) IN
      /\ (type = PASSWORD /\ n = 0) => userPc = "failed"
      /\ (type = IAM /\ n > 0) => userPc = "failed"
      /\ (type = PASSWORD /\ n \in {1, 2}) => userPc = "done"

C3_ConstructionOutcomes ==
  /\ Len(userCalls) <= 1
  /\ userPc \in {"super", "validateUserName", "validateAuthenticationSettings",
                 "createResource", "done", "failed"}
  /\ userPc \notin {"done", "failed"} => (userCalls = <<>> /\ userError = "none")
  /\ userPc = "done" => (Len(userCalls) = 1 /\ userError = "none")
  /\ userPc = "failed" => (userCalls = <<>> /\ userError # "none")
  /\ userCalls # <<>> =>
       /\ userTrace = <<"super", "validateUserName",
                        "validateAuthenticationSettings", "createResource">>
       /\ userError = "none"
  /\ \A i \in DOMAIN userTrace :
       userTrace[i] = "createResource" =>
         /\ \E j \in 1..(i - 1) : userTrace[j] = "validateUserName"
         /\ \E j \in 1..(i - 1) : userTrace[j] = "validateAuthenticationSettings"
C3_Witness ==
  /\ userPc = "failed" /\ userError = "passwordsNotAllowed"
  /\ userTrace = <<"super", "validateUserName", "validateAuthenticationSettings">>
  /\ userCalls = <<>>

\* C4: the CreateUser property bag is exactly {userName, accessString,
\* authenticationMode}: the explicit name or else the deferred generated
\* name, the explicit access string or else "off -@all", and the input
\* authentication type.
C4_PropertyBag ==
  userPc = "done" =>
    LET bag == userCalls[1] IN
      /\ DOMAIN bag = {"userName", "accessString", "authenticationMode"}
      /\ bag.userName =
           IF userProps.userName = Undefined THEN LazyName ELSE userProps.userName
      /\ bag.accessString =
           IF userProps.accessString = Undefined THEN Str("off -@all")
           ELSE userProps.accessString
      /\ bag.authenticationMode.Type = userProps.authenticationType
      /\ (/\ userProps.userName = Str(Alice)
          /\ userProps.accessString = Str("on ~* +@all")
          /\ userProps.authenticationType = IAM)
           => bag = [userName |-> Str(Alice),
                     accessString |-> Str("on ~* +@all"),
                     authenticationMode |-> [Type |-> "iam"]]
C4_Witness ==
  /\ userPc = "done"
  /\ userProps.userName = Str(Alice)
  /\ userProps.accessString = Str("on ~* +@all")
  /\ userProps.authenticationType = IAM
  /\ Len(userCalls) = 1

\* C5: the authentication descriptor has a Passwords field only when
\* credentials were supplied, and then it lists the unwrapped secrets in the
\* supplied order and number; otherwise it is exactly {Type}.
C5_AuthenticationDescriptor ==
  userPc = "done" =>
    LET mode == userCalls[1].authenticationMode
        passwords == userProps.passwords IN
      /\ mode.Type = userProps.authenticationType
      /\ IF passwords = Undefined
         THEN DOMAIN mode = {"Type"}
         ELSE /\ DOMAIN mode = {"Type", "Passwords"}
              /\ Len(mode.Passwords) = Len(passwords.items)
              /\ \A i \in DOMAIN passwords.items :
                   mode.Passwords[i] = passwords.items[i].raw
      /\ (userProps.authenticationType = PASSWORD
            /\ passwords = List(<<Secret("secretA")>>))
           => mode = [Type |-> "password", Passwords |-> <<"secretA">>]
C5_Witness ==
  /\ userPc = "done"
  /\ userProps.passwords = List(<<Secret("secretA"), Secret("secretB")>>)
  /\ userCalls[1].authenticationMode.Passwords = <<"secretA", "secretB">>

\* C6: no CreateUser call carries more than two passwords.
C6_AtMostTwoPasswords ==
  \A i \in DOMAIN userCalls :
    "Passwords" \in DOMAIN userCalls[i].authenticationMode =>
      Len(userCalls[i].authenticationMode.Passwords) <= 2

AuxOf(tag) == {i \in DOMAIN children : children[i].tag = tag}

\* C7: with cloudwatch logging enabled and no explicit log group, whatever
\* the storage settings, construction completes without error, creates
\* exactly one log group with 30-day retention, and the one create-template
\* call references that log group.
C7_CloudWatchDefault ==
  (/\ TemplateTerminal
   /\ CloudWatchEnabled(templateProps)
   /\ templateProps.logConfiguration.cloudwatchLogGroup = Undefined) =>
    /\ templatePc = "done" /\ templateError = "none"
    /\ Cardinality(AuxOf("logGroup")) = 1
    /\ \A i \in AuxOf("logGroup") : children[i].retention = 30
    /\ Len(templateCalls) = 1
    /\ \A i \in AuxOf("logGroup") :
         templateCalls[1].logConfiguration.cloudWatchLogsConfiguration.logGroupArn
           = children[i].logGroupArn

\* C8: each logging channel resolves on its own: disabled gives absent and
\* creates nothing, enabled with an explicit reference uses it and creates
\* nothing, enabled without one creates exactly one default resource; no
\* auxiliary resource is created twice.
ChannelResolved(enabled, explicit, field, tag, fresh) ==
  /\ ~enabled => (field = Undefined /\ AuxOf(tag) = {})
  /\ (enabled /\ explicit # Undefined) => (field = explicit /\ AuxOf(tag) = {})
  /\ (enabled /\ explicit = Undefined) =>
       (field = fresh /\ Cardinality(AuxOf(tag)) = 1)
  /\ enabled => field # Undefined
C8_LoggingResolution ==
  /\ \A tag \in {"role", "logGroup", "bucket"} : Cardinality(AuxOf(tag)) <= 1
  /\ templatePc \in {"resolveS3", "createExperimentTemplate", "done", "failed"} =>
       ChannelResolved(CloudWatchEnabled(templateProps),
                       IF templateProps.logConfiguration = Undefined THEN Undefined
                       ELSE templateProps.logConfiguration.cloudwatchLogGroup,
                       cloudWatchLogsGroup, "logGroup", NewLogGroup)
  /\ templatePc \in {"createExperimentTemplate", "done", "failed"} =>
       ChannelResolved(S3Enabled(templateProps),
                       IF templateProps.logConfiguration = Undefined THEN Undefined
                       ELSE templateProps.logConfiguration.s3LoggingBucket,
                       s3LoggingBucket, "bucket", NewBucket)
C8_Witness ==
  /\ templatePc = "createExperimentTemplate"
  /\ CloudWatchEnabled(templateProps)
  /\ templateProps.logConfiguration.cloudwatchLogGroup = Undefined
  /\ cloudWatchLogsGroup = NewLogGroup
  /\ ~S3Enabled(templateProps)
  /\ templateProps.logConfiguration.s3LoggingBucket = ExternalBucket
  /\ s3LoggingBucket = Undefined
  /\ Cardinality(AuxOf("logGroup")) = 1 /\ AuxOf("bucket") = {}

\* C9: an explicit role is used as it is and no role is created; without one
\* exactly one role is created; the create-template call, issued after the
\* role is resolved, carries the resolved role's ARN.
C9_RoleResolution ==
  /\ templatePc \notin {"idle", "resolveRole"} =>
       IF templateProps.role # Undefined
       THEN fisRole = templateProps.role /\ AuxOf("role") = {}
       ELSE /\ Cardinality(AuxOf("role")) = 1
            /\ \A i \in AuxOf("role") : fisRole = children[i]
  /\ Len(templateCalls) <= 1
  /\ \A i \in DOMAIN templateCalls :
       /\ fisRole # Undefined
       /\ templateCalls[i].roleArn = fisRole.roleArn
       /\ templateCalls[i].roleArn =
            IF templateProps.role # Undefined THEN templateProps.role.roleArn
            ELSE Str("arn:role/Role")
C9_Witness ==
  /\ templatePc = "done"
  /\ templateProps.role = Undefined
  /\ Cardinality(AuxOf("role")) = 1
  /\ templateCalls[1].roleArn = Str("arn:role/Role")

\* C10: the rendered stop conditions have the input's length and order, the
\* i-th being {source, value: ARN of the i-th alarm}; a condition without an
\* alarm renders with value absent, and neither fails nor is dropped.
C10_StopConditions ==
  /\ templatePc = "done" =>
       LET out == templateCalls[1].stopConditions
           inp == templateProps.stopConditions IN
         /\ Len(out) = Len(inp)
         /\ \A i \in DOMAIN inp :
              /\ DOMAIN out[i] = {"source", "value"}
              /\ out[i].source = inp[i].source
              /\ inp[i].value = Undefined => out[i].value = Undefined
              /\ inp[i].value # Undefined => out[i].value = inp[i].value.alarmArn
  /\ (TemplateTerminal /\ templateProps.logConfiguration = Undefined) =>
       templatePc = "done"
C10_Witness ==
  /\ templatePc = "done"
  /\ Len(templateProps.stopConditions) = 2
  /\ templateProps.stopConditions[1].value = Undefined
  /\ templateProps.stopConditions[2].value # Undefined
  /\ templateCalls[1].stopConditions[1].value = Undefined
  /\ templateCalls[1].stopConditions[2].value = Str("arn:alarm/2")

====
